---- MODULE Spec2Model ----
(***************************************************************************)
(* Model of src/main.py: extraction of JSON payloads embedded in CSV rows. *)
(*                                                                         *)
(* Text is modelled as a sequence of one-character strings.  The csv       *)
(* reader is modelled as an iterator that yields one record (a sequence of *)
(* fields) per step and consumes one or more physical lines for it; the    *)
(* file system is a map from output files to their content.                *)
(***************************************************************************)
EXTENDS Integers, Sequences, FiniteSets, TLC

(***************************************************************************)
(* Text helpers: str.strip, str.startswith, str.count, slicing.            *)
(***************************************************************************)

\* The whitespace character of the modelled alphabet (str.strip and the JSON
\* scanner both skip it).
IsSpace(c) == c = " "

RECURSIVE LStrip(_)
LStrip(s) == IF s # <<>> /\ IsSpace(Head(s)) THEN LStrip(Tail(s)) ELSE s

RECURSIVE RStrip(_)
RStrip(s) ==
    IF s # <<>> /\ IsSpace(s[Len(s)]) THEN RStrip(SubSeq(s, 1, Len(s) - 1)) ELSE s

\* s.strip()
Strip(s) == RStrip(LStrip(s))

\* s.startswith(c) for a one-character c
StartsWith(s, c) == s # <<>> /\ s[1] = c

\* s[:n]
Take(s, n) == SubSeq(s, 1, IF Len(s) < n THEN Len(s) ELSE n)

\* s.count(c)
Count(s, c) == Cardinality({i \in 1..Len(s) : s[i] = c})

(***************************************************************************)
(* json.loads on the modelled alphabet  [ ] { } 1 , " : and the space.     *)
(* Positions run from 1; a scanner returns the position after what it      *)
(* scanned, or 0 when the text is not JSON there.                          *)
(***************************************************************************)

RECURSIVE SkipWs(_, _)
SkipWs(s, i) == IF i <= Len(s) /\ IsSpace(s[i]) THEN SkipWs(s, i + 1) ELSE i

\* position after the closing quote of the string whose opening quote is at i-1
RECURSIVE ScanString(_, _)
ScanString(s, i) ==
    IF i > Len(s) THEN 0
    ELSE IF s[i] = "\"" THEN i + 1
    ELSE ScanString(s, i + 1)

\* position after the run of digits starting at i
RECURSIVE ScanDigits(_, _)
ScanDigits(s, i) == IF i <= Len(s) /\ s[i] = "1" THEN ScanDigits(s, i + 1) ELSE i

RECURSIVE ScanValue(_, _)
RECURSIVE ScanArrayItems(_, _)
RECURSIVE ScanObjectItems(_, _)

\* the elements of an array, the first of them expected at i
ScanArrayItems(s, i) ==
    LET e == ScanValue(s, i)
        j == SkipWs(s, e)
    IN  IF e = 0 \/ j > Len(s) THEN 0
        ELSE IF s[j] = "]" THEN j + 1
        ELSE IF s[j] = "," THEN ScanArrayItems(s, SkipWs(s, j + 1))
        ELSE 0

\* the members of an object, the first key's opening quote expected at i
ScanObjectItems(s, i) ==
    IF i > Len(s) \/ s[i] # "\"" THEN 0
    ELSE LET k == ScanString(s, i + 1)
             c == SkipWs(s, k)
         IN  IF k = 0 \/ c > Len(s) \/ s[c] # ":" THEN 0
             ELSE LET e == ScanValue(s, SkipWs(s, c + 1))
                      j == SkipWs(s, e)
                  IN  IF e = 0 \/ j > Len(s) THEN 0
                      ELSE IF s[j] = "}" THEN j + 1
                      ELSE IF s[j] = "," THEN ScanObjectItems(s, SkipWs(s, j + 1))
                      ELSE 0

ScanValue(s, i) ==
    IF i > Len(s) THEN 0
    ELSE IF s[i] = "\"" THEN ScanString(s, i + 1)
    ELSE IF s[i] = "1" THEN ScanDigits(s, i)
    ELSE IF s[i] = "[" THEN
        LET j == SkipWs(s, i + 1)
        IN  IF j <= Len(s) /\ s[j] = "]" THEN j + 1 ELSE ScanArrayItems(s, j)
    ELSE IF s[i] = "{" THEN
        LET j == SkipWs(s, i + 1)
        IN  IF j <= Len(s) /\ s[j] = "}" THEN j + 1 ELSE ScanObjectItems(s, j)
    ELSE 0

\* json.loads(s) returns without raising
JsonLoads(s) ==
    LET e == ScanValue(s, SkipWs(s, 1))
    IN  e # 0 /\ SkipWs(s, e) = Len(s) + 1

(***************************************************************************)
(* Selection of the JSON column: max(row, key=len).                        *)
(***************************************************************************)

\* a max that keeps the last maximal item
RECURSIVE MaxFromLast(_, _, _)
MaxFromLast(row, i, best) ==
    IF i > Len(row) THEN best
    ELSE MaxFromLast(row, i + 1, IF Len(row[i]) >= Len(best) THEN row[i] ELSE best)

\* max() keeps the first maximal item: the running best is replaced only by a
\* strictly longer field.
RECURSIVE MaxFrom(_, _, _)
MaxFrom(row, i, best) ==
    IF i > Len(row) THEN best
    ELSE MaxFrom(row, i + 1, IF Len(row[i]) > Len(best) THEN row[i] ELSE best)

\* json_column = max(row, key=len) if row else ""
JsonColumn(row) == IF row # <<>> THEN MaxFrom(row, 2, row[1]) ELSE <<>>

(***************************************************************************)
(* The plausibility check made on each extracted value.                    *)
(***************************************************************************)

ProbeLen == 1000

\* test_sample = json_column[:1000] + the closing character
TestSample(json_column) ==
    Take(json_column, ProbeLen)
        \o (IF StartsWith(Strip(json_column), "[") THEN <<"]">> ELSE <<"}">>)

\* "appears_valid", "validation_failed" (json.loads raised, caught) or "not_json"
QuickValidation(json_column) ==
    IF StartsWith(Strip(json_column), "[") \/ StartsWith(Strip(json_column), "{")
    THEN IF JsonLoads(TestSample(json_column)) THEN "appears_valid"
         ELSE "validation_failed"
    ELSE "not_json"

(***************************************************************************)
(* validate_json_file on the content read from the file.                   *)
(***************************************************************************)

FirstChar(content) == Strip(content)[1]
LastChar(content) == Strip(content)[Len(Strip(content))]

\* the verdict without the check of the first character
ValidateNoStartCheck(content) ==
    IF Strip(content) = <<>> THEN
        [ok |-> FALSE, verdict |-> "empty", end_warning |-> FALSE,
         open_braces |-> 0, open_brackets |-> 0]
    ELSE IF JsonLoads(content) THEN
        [ok |-> TRUE, verdict |-> "valid",
         end_warning |-> LastChar(content) \notin {"]", "}"},
         open_braces |-> 0, open_brackets |-> 0]
    ELSE
        [ok |-> FALSE, verdict |-> "parse_error",
         end_warning |-> LastChar(content) \notin {"]", "}"},
         open_braces |-> Count(content, "{") - Count(content, "}"),
         open_brackets |-> Count(content, "[") - Count(content, "]")]

\* the verdict on a file that was read: ok is the return value, the balances
\* are computed (and reported when non-zero) only after a parse error
ValidateContent(content) ==
    IF Strip(content) = <<>> THEN
        [ok |-> FALSE, verdict |-> "empty", end_warning |-> FALSE,
         open_braces |-> 0, open_brackets |-> 0]
    ELSE IF FirstChar(content) \notin {"[", "{"} THEN
        [ok |-> FALSE, verdict |-> "wrong_start", end_warning |-> FALSE,
         open_braces |-> 0, open_brackets |-> 0]
    ELSE IF JsonLoads(content) THEN
        [ok |-> TRUE, verdict |-> "valid",
         end_warning |-> LastChar(content) \notin {"]", "}"},
         open_braces |-> 0, open_brackets |-> 0]
    ELSE
        [ok |-> FALSE, verdict |-> "parse_error",
         end_warning |-> LastChar(content) \notin {"]", "}"},
         open_braces |-> Count(content, "{") - Count(content, "}"),
         open_brackets |-> Count(content, "[") - Count(content, "]")]

(***************************************************************************)
(* Numbered output files: output_dir / f"{base_name}_row_{n:03d}.json".    *)
(* A path is a non-empty sequence of components, the last one its name.    *)
(***************************************************************************)

PadWidth == 3

DigitChar(d) == <<"0", "1", "2", "3", "4", "5", "6", "7", "8", "9">>[d + 1]

\* the decimal numeral of n >= 0
RECURSIVE Decimal(_)
Decimal(n) == IF n < 10 THEN <<DigitChar(n)>> ELSE Decimal(n \div 10) \o <<DigitChar(n % 10)>>

\* zero-fill to at least w characters
RECURSIVE ZeroFill(_, _)
ZeroFill(s, w) == IF Len(s) < w THEN ZeroFill(<<"0">> \o s, w) ELSE s

\* f"{n:03d}" with the last three digits only
FormatRowNumberTruncated(n) == ZeroFill(Decimal(n % 1000), PadWidth)

\* f"{n:03d}"
FormatRowNumber(n) == ZeroFill(Decimal(n), PadWidth)

\* Path(p).parent
Parent(p) == SubSeq(p, 1, Len(p) - 1)

\* the position of the last "." of name, 0 when there is none (str.rfind + 1)
RECURSIVE RFindDot(_, _)
RFindDot(name, i) == IF i = 0 THEN 0 ELSE IF name[i] = "." THEN i ELSE RFindDot(name, i - 1)

\* Path(p).stem: the name without its last suffix; a leading or a trailing
\* dot starts no suffix
Stem(p) ==
    LET name == p[Len(p)]
        i == RFindDot(name, Len(name))
    IN  IF 1 < i /\ i < Len(name) THEN SubSeq(name, 1, i - 1) ELSE name

RowInfix == <<"_", "r", "o", "w", "_">>
JsonSuffix == <<".", "j", "s", "o", "n">>

\* output_file = output_dir / f"{base_name}_row_{row_number:03d}.json"
OutputFile(output_prefix, n) ==
    Append(Parent(output_prefix),
           Stem(output_prefix) \o RowInfix \o FormatRowNumber(n) \o JsonSuffix)

(***************************************************************************)
(* int(sys.argv[3]) on the modelled argument texts: an optional sign and   *)
(* decimal digits; anything else raises ValueError.                        *)
(***************************************************************************)

DigitValue(c) == CHOOSE d \in 0..9 : DigitChar(d) = c
IsDigit(c) == \E d \in 0..9 : DigitChar(d) = c

RECURSIVE DigitsValue(_)
DigitsValue(s) ==
    IF s = <<>> THEN 0 ELSE 10 * DigitsValue(SubSeq(s, 1, Len(s) - 1)) + DigitValue(s[Len(s)])

IsInt(a) ==
    LET d == IF a # <<>> /\ a[1] = "-" THEN Tail(a) ELSE a
    IN  d # <<>> /\ \A i \in 1..Len(d) : IsDigit(d[i])

IntOf(a) == IF a[1] = "-" THEN 0 - DigitsValue(Tail(a)) ELSE DigitsValue(a)

(***************************************************************************)
(* The run: state.                                                         *)
(***************************************************************************)

MaxLines == 3
MaxFields == 2

\* the field texts the modelled records are made of
Fields ==
    { <<>>, <<" ">>, <<"[", "1">>, <<"[", "]">>, <<" ", "1">> }

Rows == UNION {[1..k -> Fields] : k \in 0..MaxFields}

\* an output file that does not exist, and what one that exists held before
NoFile == <<"<absent>">>
OldContent == <<"o", "l", "d">>

\* output_path itself is file 0; the numbered file of row n is file n
OutputPath == 0
OutputFiles == 0..MaxLines

VARIABLES
    entry,            \* the function the run calls
    output_prefix,    \* the output path given: a sequence of path components
    output_file,      \* extract_all_rows: the path of the numbered file opened last
    argv,             \* [n: number of positional arguments, row: the text of the third]
    input,            \* the input file: [exists, readable, lines]
    out_dir,          \* the output directory: [exists, creatable]
    files,            \* content of every output file, NoFile when absent
    initial_files,    \* history: files as the run found them
    pc,               \* the position of the run
    handles,          \* the file handles that are open
    invoked,          \* the components invoked so far, in order
    total_lines,      \* main: the Structure Analyzer's return value
    row_number,       \* the requested row (single row) or the loop's row number (all rows)
    current_row_num,  \* extract_single_row's loop variable: <<>> while unbound
    lines_read,       \* physical lines the csv reader has consumed
    row,              \* the record the reader yielded last
    json_column,      \* the selected field
    extracted_count,
    skipped_count,
    quick,            \* outcome of the plausibility check made last
    success,          \* the extractor's return value: "none", "True", "False"
    message,          \* the failure reported last: [kind, n]
    validation,       \* validate_json_file's verdict
    exit_status       \* main: the exit status, once pc = "exit"

vars == <<entry, output_prefix, output_file, initial_files, argv, input, out_dir, files, pc, handles, invoked, total_lines,
          row_number, current_row_num, lines_read, row, json_column,
          extracted_count, skipped_count, quick, success, message, validation,
          exit_status>>

NoMessage == [kind |-> "none", n |-> 0]
NoVerdict ==
    [ok |-> FALSE, verdict |-> "none", end_warning |-> FALSE,
     open_braces |-> 0, open_brackets |-> 0]
Unreadable ==
    [ok |-> FALSE, verdict |-> "unreadable", end_warning |-> FALSE,
     open_braces |-> 0, open_brackets |-> 0]

\* the texts given as sys.argv[3]
RowArguments ==
    { <<"a">>, <<"1", "a">>, <<"-", "1">>, <<"0">> } \cup {Decimal(n) : n \in 1..(MaxLines + 1)}

\* what the environment lets an open(..., 'w') and the write after it do
WriteOutcomes == {"written", "open_fails", "write_fails"}

ProperPrefixes(s) == {SubSeq(s, 1, n) : n \in 0..(Len(s) - 1)}

Locals ==
    /\ pc \in {"m_start", "s_open", "a_open", "v_open"}
    /\ handles = {}
    /\ invoked = <<>>
    /\ total_lines = 0
    /\ current_row_num = <<>>
    /\ lines_read = 0
    /\ row = <<>>
    /\ json_column = <<>>
    /\ extracted_count = 0
    /\ skipped_count = 0
    /\ quick = "none"
    /\ success = "none"
    /\ message = NoMessage
    /\ validation = NoVerdict
    /\ exit_status = 0
    /\ output_file = <<>>

InitFiles ==
    \E old \in {NoFile, OldContent} :
        /\ files = [f \in OutputFiles |-> old]
        /\ (~out_dir.exists => old = NoFile)
    /\ initial_files = files

\* python3 main.py <arguments>
InitMain ==
    /\ entry = "main"
    /\ pc = "m_start"
    /\ argv \in [n : 0..3, row : RowArguments]
    /\ (argv.n < 3 => argv.row = <<"a">>)
    /\ input \in [exists : BOOLEAN, readable : BOOLEAN, lines : 0..MaxLines]
    /\ (~input.exists => ~input.readable /\ input.lines = 0)
    /\ (~input.readable => input.lines = 0)
    /\ out_dir \in [exists : BOOLEAN, creatable : BOOLEAN]
    /\ (out_dir.exists => out_dir.creatable)
    /\ row_number = 0

\* a direct call of extract_single_row(file_path, output_path, row_number)
InitSingle ==
    /\ entry = "extract_single_row"
    /\ pc = "s_open"
    /\ argv = [n |-> 0, row |-> <<"a">>]
    /\ input \in [exists : BOOLEAN, readable : BOOLEAN, lines : 0..MaxLines]
    /\ (~input.exists => ~input.readable)
    /\ (~input.readable => input.lines = 0)
    /\ out_dir \in [exists : BOOLEAN, creatable : {TRUE}]
    /\ row_number \in (0 - 1)..(MaxLines + 1)

\* a direct call of extract_all_rows(file_path, output_prefix)
InitAll ==
    /\ entry = "extract_all_rows"
    /\ pc = "a_open"
    /\ argv = [n |-> 0, row |-> <<"a">>]
    /\ input \in [exists : BOOLEAN, readable : BOOLEAN, lines : 0..MaxLines]
    /\ (~input.exists => ~input.readable)
    /\ (~input.readable => input.lines = 0)
    /\ out_dir \in [exists : BOOLEAN, creatable : {TRUE}]
    /\ row_number = 0

Init ==
    /\ InitMain \/ InitSingle \/ InitAll
    /\ output_prefix = <<<<"o", "u", "t">>, <<"d", "a", "t", "a", ".", "j", "s", "o", "n">>>>
    /\ InitFiles
    /\ Locals

(***************************************************************************)
(* main: arguments, structure analysis, dispatch.                          *)
(***************************************************************************)

\* a handle that is never closed
ReleaseNothing(open_handles, h) == open_handles

\* a with block is left, normally or by an exception: its handle is closed
Release(open_handles, h) == open_handles \ {h}

\* the row number checks with the upper limit one too high
RangeCheckOffByOne(r, lines) ==
    IF r < 1 THEN "range_positive"
    ELSE IF r > lines + 1 THEN "range_lines"
    ELSE "in_range"

\* the row number checks: "range_positive", "range_lines" or "in_range"
RangeCheck(r, lines) ==
    IF r < 1 THEN "range_positive"
    ELSE IF r > lines THEN "range_lines"
    ELSE "in_range"

\* a status that follows the validator's verdict
StatusFromVerdict(verdict) == IF verdict.ok THEN 0 ELSE 1

\* the status main ends with once the extracted file was validated: the
\* validator's return value is not used
StatusAfterValidation(verdict) == 0

\* sys.exit(status), or an exception that leaves main uncaught (status 1)
Exit(status, kind) ==
    /\ pc' = "exit"
    /\ exit_status' = status
    /\ message' = [kind |-> kind, n |-> 0]

\* the arity check and the check that the input file exists
MainStart ==
    /\ pc = "m_start"
    /\ IF argv.n < 2 THEN Exit(1, "usage")
       ELSE IF ~input.exists THEN Exit(1, "not_found")
       ELSE pc' = "an_open" /\ UNCHANGED <<exit_status, message>>
    /\ UNCHANGED <<entry, output_prefix, output_file, initial_files, argv, input, out_dir, files, handles, invoked, total_lines,
                   row_number, current_row_num, lines_read, row, json_column,
                   extracted_count, skipped_count, quick, success, validation>>

\* analyze_csv_structure opens the file; main catches nothing it raises
AnalyzeOpen ==
    /\ pc = "an_open"
    /\ invoked' = Append(invoked, "analyze_csv_structure")
    /\ IF input.readable
       THEN /\ handles' = handles \cup {"analyze"}
            /\ pc' = "an_read"
            /\ UNCHANGED <<exit_status, message>>
       ELSE /\ Exit(1, "traceback")
            /\ UNCHANGED handles
    /\ UNCHANGED <<entry, output_prefix, output_file, initial_files, argv, input, out_dir, files, total_lines,
                   row_number, current_row_num, lines_read, row, json_column,
                   extracted_count, skipped_count, quick, success, validation>>

\* readlines, the preview, the handle's release, return len(lines)
AnalyzeRead ==
    /\ pc = "an_read"
    /\ total_lines' = input.lines
    /\ handles' = Release(handles, "analyze")
    /\ pc' = IF argv.n > 2 THEN "m_single" ELSE "m_all"
    /\ UNCHANGED <<entry, output_prefix, output_file, initial_files, argv, input, out_dir, files, invoked,
                   row_number, current_row_num, lines_read, row, json_column,
                   extracted_count, skipped_count, quick, success, message,
                   validation, exit_status>>

\* a third argument: int(), the range checks, then extract_single_row
MainSingleMode ==
    /\ pc = "m_single"
    /\ IF ~IsInt(argv.row) THEN Exit(1, "not_a_row_number") /\ UNCHANGED row_number
       ELSE IF RangeCheck(IntOf(argv.row), total_lines) # "in_range"
            THEN /\ Exit(1, RangeCheck(IntOf(argv.row), total_lines))
                 /\ UNCHANGED row_number
       ELSE /\ row_number' = IntOf(argv.row)
            /\ pc' = "s_open"
            /\ UNCHANGED <<exit_status, message>>
    /\ UNCHANGED <<entry, output_prefix, output_file, initial_files, argv, input, out_dir, files, handles, invoked, total_lines,
                   current_row_num, lines_read, row, json_column,
                   extracted_count, skipped_count, quick, success, validation>>

\* no third argument: the output directory is created when missing (mkdir's
\* exception is not caught), then extract_all_rows
MainAllMode ==
    /\ pc = "m_all"
    /\ IF out_dir.exists THEN pc' = "a_open" /\ UNCHANGED <<out_dir, exit_status, message>>
       ELSE IF out_dir.creatable
            THEN /\ out_dir' = [out_dir EXCEPT !.exists = TRUE]
                 /\ pc' = "a_open"
                 /\ UNCHANGED <<exit_status, message>>
       ELSE Exit(1, "traceback") /\ UNCHANGED out_dir
    /\ UNCHANGED <<entry, output_prefix, output_file, initial_files, argv, input, files, handles, invoked, total_lines,
                   row_number, current_row_num, lines_read, row, json_column,
                   extracted_count, skipped_count, quick, success, validation>>

\* after extract_single_row: validate on success, sys.exit(1) otherwise
MainAfterSingle ==
    /\ pc = "m_single_done"
    /\ IF success = "True" THEN pc' = "v_open" /\ UNCHANGED <<exit_status, message>>
       ELSE pc' = "exit" /\ exit_status' = 1 /\ UNCHANGED message
    /\ UNCHANGED <<entry, output_prefix, output_file, initial_files, argv, input, out_dir, files, handles, invoked, total_lines,
                   row_number, current_row_num, lines_read, row, json_column,
                   extracted_count, skipped_count, quick, success, validation>>

\* after extract_all_rows: the hint on success, sys.exit(1) otherwise
MainAfterAll ==
    /\ pc = "m_all_done"
    /\ pc' = "exit"
    /\ exit_status' = IF success = "True" THEN 0 ELSE 1
    /\ UNCHANGED <<entry, output_prefix, output_file, initial_files, argv, input, out_dir, files, handles, invoked, total_lines,
                   row_number, current_row_num, lines_read, row, json_column,
                   extracted_count, skipped_count, quick, success, message, validation>>

\* the validator's verdict is discarded: the next steps are printed, main returns
MainFinish ==
    /\ pc = "m_validated"
    /\ pc' = "exit"
    /\ exit_status' = StatusAfterValidation(validation)
    /\ UNCHANGED <<entry, output_prefix, output_file, initial_files, argv, input, out_dir, files, handles, invoked, total_lines,
                   row_number, current_row_num, lines_read, row, json_column,
                   extracted_count, skipped_count, quick, success, message, validation>>

(***************************************************************************)
(* The csv reader: one record per step, each taking one or more physical   *)
(* lines; a record without fields is one blank line.                       *)
(***************************************************************************)

ReaderYields(r, k) ==
    /\ lines_read < input.lines
    /\ k \in 1..(input.lines - lines_read)
    /\ (r = <<>> => k = 1)

ReaderExhausted == lines_read = input.lines

(***************************************************************************)
(* extract_single_row                                                      *)
(***************************************************************************)

\* if not json_column, on the text after a strip
NoDataStripped(text) == Strip(text) = <<>>

\* if not json_column
NoData(text) == text = <<>>

SingleReturnPc == IF entry = "main" THEN "m_single_done" ELSE "returned"

SingleOpen ==
    /\ pc = "s_open"
    /\ invoked' = Append(invoked, "extract_single_row")
    /\ IF input.readable
       THEN /\ handles' = handles \cup {"input"}
            /\ pc' = "s_loop"
            /\ UNCHANGED <<success, message>>
       ELSE /\ success' = "False"
            /\ message' = [kind |-> "error", n |-> 0]
            /\ pc' = SingleReturnPc
            /\ UNCHANGED handles
    /\ UNCHANGED <<entry, output_prefix, output_file, initial_files, argv, input, out_dir, files, total_lines,
                   row_number, current_row_num, lines_read, row, json_column,
                   extracted_count, skipped_count, quick, validation, exit_status>>

\* for current_row_num, row in enumerate(reader, 1): the next record
SingleNext ==
    /\ pc = "s_loop"
    /\ \E r \in Rows, k \in 1..MaxLines :
        /\ ReaderYields(r, k)
        /\ row' = r
        /\ lines_read' = lines_read + k
    /\ current_row_num' =
           IF current_row_num = <<>> THEN <<1>> ELSE <<current_row_num[1] + 1>>
    /\ pc' = IF current_row_num'[1] = row_number THEN "s_target" ELSE "s_loop"
    /\ UNCHANGED <<entry, output_prefix, output_file, initial_files, argv, input, out_dir, files, handles, invoked, total_lines,
                   row_number, json_column, extracted_count, skipped_count, quick,
                   success, message, validation, exit_status>>

\* the target row: empty row, selection, no data
SingleTarget ==
    /\ pc = "s_target"
    /\ IF row = <<>>
       THEN /\ success' = "False"
            /\ message' = [kind |-> "row_is_empty", n |-> row_number]
            /\ handles' = Release(handles, "input")
            /\ pc' = SingleReturnPc
            /\ UNCHANGED json_column
       ELSE /\ json_column' = JsonColumn(row)
            /\ IF NoData(json_column')
               THEN /\ success' = "False"
                    /\ message' = [kind |-> "no_data_found", n |-> row_number]
                    /\ handles' = Release(handles, "input")
                    /\ pc' = SingleReturnPc
               ELSE /\ pc' = "s_out_open"
                    /\ UNCHANGED <<success, message, handles>>
    /\ UNCHANGED <<entry, output_prefix, output_file, initial_files, argv, input, out_dir, files, invoked, total_lines,
                   row_number, current_row_num, lines_read, row,
                   extracted_count, skipped_count, quick, validation, exit_status>>

\* open(output_path, 'w') truncates the file, or raises and leaves it alone
SingleOutOpen ==
    /\ pc = "s_out_open"
    /\ \E outcome \in WriteOutcomes :
        /\ (~out_dir.exists => outcome = "open_fails")
        /\ IF outcome = "open_fails"
           THEN /\ success' = "False"
                /\ message' = [kind |-> "error", n |-> 0]
                /\ handles' = Release(handles, "input")
                /\ pc' = SingleReturnPc
                /\ UNCHANGED files
           ELSE /\ files' = [files EXCEPT ![OutputPath] = <<>>]
                /\ handles' = handles \cup {"output"}
                /\ pc' = IF outcome = "written" THEN "s_out_write" ELSE "s_out_fail"
                /\ UNCHANGED <<success, message>>
    /\ UNCHANGED <<entry, output_prefix, output_file, initial_files, argv, input, out_dir, invoked, total_lines,
                   row_number, current_row_num, lines_read, row, json_column,
                   extracted_count, skipped_count, quick, validation, exit_status>>

\* out.write(json_column) and the handle's release
SingleOutWrite ==
    /\ pc = "s_out_write"
    /\ files' = [files EXCEPT ![OutputPath] = json_column]
    /\ handles' = Release(handles, "output")
    /\ pc' = "s_quick"
    /\ UNCHANGED <<entry, output_prefix, output_file, initial_files, argv, input, out_dir, invoked, total_lines,
                   row_number, current_row_num, lines_read, row, json_column,
                   extracted_count, skipped_count, quick, success, message,
                   validation, exit_status>>

\* the write (or the flush on release) raises: part of the text may be there
SingleOutFail ==
    /\ pc = "s_out_fail"
    /\ \E part \in ProperPrefixes(json_column) :
        files' = [files EXCEPT ![OutputPath] = part]
    /\ handles' = {}
    /\ success' = "False"
    /\ message' = [kind |-> "error", n |-> 0]
    /\ pc' = SingleReturnPc
    /\ UNCHANGED <<entry, output_prefix, output_file, initial_files, argv, input, out_dir, invoked, total_lines,
                   row_number, current_row_num, lines_read, row, json_column,
                   extracted_count, skipped_count, quick, validation, exit_status>>

\* the quick validation, whose outcome is only printed, then return True
SingleQuick ==
    /\ pc = "s_quick"
    /\ quick' = QuickValidation(json_column)
    /\ success' = "True"
    /\ handles' = Release(handles, "input")
    /\ pc' = SingleReturnPc
    /\ UNCHANGED <<entry, output_prefix, output_file, initial_files, argv, input, out_dir, files, invoked, total_lines,
                   row_number, current_row_num, lines_read, row, json_column,
                   extracted_count, skipped_count, message, validation, exit_status>>

\* the loop ends before the target row: the message reads current_row_num,
\* which is unbound when the reader yielded nothing (UnboundLocalError, caught)
SingleExhausted ==
    /\ pc = "s_loop"
    /\ ReaderExhausted
    /\ message' = IF current_row_num = <<>> THEN [kind |-> "error", n |-> 0]
                  ELSE [kind |-> "file_only_has_rows", n |-> current_row_num[1]]
    /\ success' = "False"
    /\ handles' = Release(handles, "input")
    /\ pc' = SingleReturnPc
    /\ UNCHANGED <<entry, output_prefix, output_file, initial_files, argv, input, out_dir, files, invoked, total_lines,
                   row_number, current_row_num, lines_read, row, json_column,
                   extracted_count, skipped_count, quick, validation, exit_status>>

(***************************************************************************)
(* extract_all_rows                                                        *)
(***************************************************************************)

MinSignificant == 2

\* return extracted_count >= 0
AllResultAlways(extracted) == IF extracted >= 0 THEN "True" ELSE "False"

\* return extracted_count > 0
AllResult(extracted) == IF extracted > 0 THEN "True" ELSE "False"

AllReturnPc == IF entry = "main" THEN "m_all_done" ELSE "returned"

\* the skip test without the strip: len(json_column) < 2
TooShortUnstripped(text) == text = <<>> \/ Len(text) < MinSignificant

\* not json_column or len(json_column.strip()) < 2
TooShort(text) == NoData(text) \/ Len(Strip(text)) < MinSignificant

AllOpen ==
    /\ pc = "a_open"
    /\ invoked' = Append(invoked, "extract_all_rows")
    /\ IF input.readable
       THEN /\ handles' = handles \cup {"input"}
            /\ pc' = "a_loop"
            /\ UNCHANGED <<success, message>>
       ELSE /\ success' = "False"
            /\ message' = [kind |-> "error", n |-> 0]
            /\ pc' = AllReturnPc
            /\ UNCHANGED handles
    /\ UNCHANGED <<entry, output_prefix, output_file, initial_files, argv, input, out_dir, files, total_lines,
                   row_number, current_row_num, lines_read, row, json_column,
                   extracted_count, skipped_count, quick, validation, exit_status>>

\* for row_number, row in enumerate(reader, 1): the next record, skipped when
\* it is empty or its longest field is too short
AllNext ==
    /\ pc = "a_loop"
    /\ \E r \in Rows, k \in 1..MaxLines :
        /\ ReaderYields(r, k)
        /\ row' = r
        /\ lines_read' = lines_read + k
    /\ row_number' = row_number + 1
    /\ IF row' = <<>>
       THEN /\ skipped_count' = skipped_count + 1
            /\ pc' = "a_loop"
            /\ UNCHANGED json_column
       ELSE /\ json_column' = JsonColumn(row')
            /\ IF TooShort(json_column')
               THEN skipped_count' = skipped_count + 1 /\ pc' = "a_loop"
               ELSE pc' = "a_out_open" /\ UNCHANGED skipped_count
    /\ UNCHANGED <<entry, output_prefix, output_file, initial_files, argv, input, out_dir, files, handles, invoked, total_lines,
                   current_row_num, extracted_count, quick, success, message,
                   validation, exit_status>>

\* open(output_file, 'w') for the row's numbered file
AllOutOpen ==
    /\ pc = "a_out_open"
    /\ output_file' = OutputFile(output_prefix, row_number)
    /\ \E outcome \in WriteOutcomes :
        /\ (~out_dir.exists => outcome = "open_fails")
        /\ IF outcome = "open_fails"
           THEN /\ success' = "False"
                /\ message' = [kind |-> "error", n |-> 0]
                /\ handles' = Release(handles, "input")
                /\ pc' = AllReturnPc
                /\ UNCHANGED files
           ELSE /\ files' = [files EXCEPT ![row_number] = <<>>]
                /\ handles' = handles \cup {"output"}
                /\ pc' = IF outcome = "written" THEN "a_out_write" ELSE "a_out_fail"
                /\ UNCHANGED <<success, message>>
    /\ UNCHANGED <<entry, output_prefix, initial_files, argv, input, out_dir, invoked, total_lines,
                   row_number, current_row_num, lines_read, row, json_column,
                   extracted_count, skipped_count, quick, validation, exit_status>>

\* the write, the handle's release, the plausibility report, the counter
AllOutWrite ==
    /\ pc = "a_out_write"
    /\ files' = [files EXCEPT ![row_number] = json_column]
    /\ handles' = Release(handles, "output")
    /\ quick' = QuickValidation(json_column)
    /\ extracted_count' = extracted_count + 1
    /\ pc' = "a_loop"
    /\ UNCHANGED <<entry, output_prefix, output_file, initial_files, argv, input, out_dir, invoked, total_lines,
                   row_number, current_row_num, lines_read, row, json_column,
                   skipped_count, success, message, validation, exit_status>>

\* the write raises: the loop is left, the function returns False
AllOutFail ==
    /\ pc = "a_out_fail"
    /\ \E part \in ProperPrefixes(json_column) :
        files' = [files EXCEPT ![row_number] = part]
    /\ handles' = {}
    /\ success' = "False"
    /\ message' = [kind |-> "error", n |-> 0]
    /\ pc' = AllReturnPc
    /\ UNCHANGED <<entry, output_prefix, output_file, initial_files, argv, input, out_dir, invoked, total_lines,
                   row_number, current_row_num, lines_read, row, json_column,
                   extracted_count, skipped_count, quick, validation, exit_status>>

\* the loop ends: the counts are reported, return extracted_count > 0
AllDone ==
    /\ pc = "a_loop"
    /\ ReaderExhausted
    /\ success' = AllResult(extracted_count)
    /\ message' = [kind |-> "extracted_rows", n |-> extracted_count]
    /\ handles' = Release(handles, "input")
    /\ pc' = AllReturnPc
    /\ UNCHANGED <<entry, output_prefix, output_file, initial_files, argv, input, out_dir, files, invoked, total_lines,
                   row_number, current_row_num, lines_read, row, json_column,
                   extracted_count, skipped_count, quick, validation, exit_status>>

(***************************************************************************)
(* validate_json_file (on output_path)                                     *)
(***************************************************************************)

ValidateReturnPc == IF entry = "main" THEN "m_validated" ELSE "returned"

\* open(json_file, 'r'): raises when the file cannot be read (caught)
ValidateOpen ==
    /\ pc = "v_open"
    /\ invoked' = Append(invoked, "validate_json_file")
    /\ IF files[OutputPath] = NoFile
       THEN /\ validation' = Unreadable
            /\ pc' = ValidateReturnPc
            /\ UNCHANGED handles
       ELSE /\ handles' = handles \cup {"json"}
            /\ pc' = "v_read"
            /\ UNCHANGED validation
    /\ UNCHANGED <<entry, output_prefix, output_file, initial_files, argv, input, out_dir, files, total_lines,
                   row_number, current_row_num, lines_read, row, json_column,
                   extracted_count, skipped_count, quick, success, message, exit_status>>

\* content = f.read(), the handle's release, the checks and the parse
ValidateRead ==
    /\ pc = "v_read"
    /\ handles' = Release(handles, "json")
    /\ validation' = ValidateContent(files[OutputPath])
    /\ pc' = ValidateReturnPc
    /\ UNCHANGED <<entry, output_prefix, output_file, initial_files, argv, input, out_dir, files, invoked, total_lines,
                   row_number, current_row_num, lines_read, row, json_column,
                   extracted_count, skipped_count, quick, success, message, exit_status>>

(***************************************************************************)
(* The specification of a run of main or of a direct extractor call.       *)
(***************************************************************************)

Next ==
    \/ MainStart
    \/ AnalyzeOpen
    \/ AnalyzeRead
    \/ MainSingleMode
    \/ MainAllMode
    \/ MainAfterSingle
    \/ MainAfterAll
    \/ MainFinish
    \/ SingleOpen
    \/ SingleNext
    \/ SingleTarget
    \/ SingleOutOpen
    \/ SingleOutWrite
    \/ SingleOutFail
    \/ SingleQuick
    \/ SingleExhausted
    \/ AllOpen
    \/ AllNext
    \/ AllOutOpen
    \/ AllOutWrite
    \/ AllOutFail
    \/ AllDone
    \/ ValidateOpen
    \/ ValidateRead

Spec == Init /\ [][Next]_vars

(***************************************************************************)
(* validate_json_file called on its own, on any file.                      *)
(***************************************************************************)

MaxContentLen == 4

JsonAlphabet == {"[", "]", "{", "}", "1", ",", "\"", ":", " "}

Contents == UNION {[1..k -> JsonAlphabet] : k \in 0..MaxContentLen}

InitValidate ==
    /\ entry = "validate_json_file"
    /\ pc = "v_open"
    /\ argv = [n |-> 0, row |-> <<"a">>]
    /\ input = [exists |-> FALSE, readable |-> FALSE, lines |-> 0]
    /\ out_dir = [exists |-> TRUE, creatable |-> TRUE]
    /\ output_prefix = <<<<"o", "u", "t">>, <<"d", "a", "t", "a", ".", "j", "s", "o", "n">>>>
    /\ row_number = 0
    /\ \E content \in Contents \cup {NoFile} :
        files = [f \in OutputFiles |-> IF f = OutputPath THEN content ELSE NoFile]
    /\ initial_files = files
    /\ Locals

NextValidate == ValidateOpen \/ ValidateRead

SpecValidate == InitValidate /\ [][NextValidate]_vars

(***************************************************************************)
(* The numbered file name, for any prefix and row number.                  *)
(***************************************************************************)

MaxRowNumber == 1100

\* last components: no suffix, one, two, a leading dot, a trailing dot
PrefixNames ==
    { <<"d">>, <<"d", ".", "j">>, <<"d", ".", "j", ".", "x">>, <<".", "d">>, <<"d", ".">> }

OutputPrefixes ==
    {<<name>> : name \in PrefixNames} \cup {<<<<"o">>, name>> : name \in PrefixNames}

InitName ==
    /\ entry = "extract_all_rows"
    /\ pc = "a_name"
    /\ argv = [n |-> 0, row |-> <<"a">>]
    /\ input = [exists |-> TRUE, readable |-> TRUE, lines |-> 0]
    /\ out_dir = [exists |-> TRUE, creatable |-> TRUE]
    /\ output_prefix \in OutputPrefixes
    /\ row_number \in 1..MaxRowNumber
    /\ files = [f \in OutputFiles |-> NoFile]
    /\ initial_files = files
    /\ handles = {}
    /\ invoked = <<>>
    /\ total_lines = 0
    /\ current_row_num = <<>>
    /\ lines_read = 0
    /\ row = <<>>
    /\ json_column = <<>>
    /\ extracted_count = 0
    /\ skipped_count = 0
    /\ quick = "none"
    /\ success = "none"
    /\ message = NoMessage
    /\ validation = NoVerdict
    /\ exit_status = 0
    /\ output_file = <<>>

\* output_dir / f"{base_name}_row_{row_number:03d}.json"
FormatName ==
    /\ pc = "a_name"
    /\ output_file' = OutputFile(output_prefix, row_number)
    /\ pc' = "a_named"
    /\ UNCHANGED <<entry, output_prefix, initial_files, argv, input, out_dir, files, handles, invoked,
                   total_lines, row_number, current_row_num, lines_read, row,
                   json_column, extracted_count, skipped_count, quick, success,
                   message, validation, exit_status>>

SpecName == InitName /\ [][FormatName]_vars

(***************************************************************************)
(* Properties.                                                             *)
(***************************************************************************)

Invoked(name) == \E i \in DOMAIN invoked : invoked[i] = name

\* the field of greatest length, the first of them when several share it
LongestField(r) ==
    IF r = <<>> THEN <<>>
    ELSE r[CHOOSE i \in 1..Len(r) :
               /\ \A j \in 1..Len(r) : Len(r[j]) <= Len(r[i])
               /\ \A j \in 1..(i - 1) : Len(r[j]) < Len(r[i])]

SingleReturned == Invoked("extract_single_row") /\ pc = SingleReturnPc
AllReturned == Invoked("extract_all_rows") /\ pc = AllReturnPc

\* extract_single_row's loop reached the requested row
TargetReached == current_row_num = <<row_number>>

\* the handler of extract_single_row or extract_all_rows caught an exception
Raised == message.kind = "error"

\* C1: whenever an extractor has selected the JSON column of a row with at
\* least one field, the selected text is the row's field of maximum length,
\* and the first such field when several fields share that length.
C1_LongestFieldSelected ==
    (/\ row # <<>>
     /\ \/ pc \in {"s_out_open", "s_out_write", "s_out_fail", "s_quick"}
        \/ pc \in {"a_loop", "a_out_open", "a_out_write", "a_out_fail"}
        \/ message.kind = "no_data_found"
        \/ (SingleReturned /\ success = "True"))
    => json_column = LongestField(row)

C1_TieSelectsFirst ==
    /\ pc = "a_out_open"
    /\ Len(row) = 2
    /\ Len(row[1]) = Len(row[2])
    /\ row[1] # row[2]
    /\ json_column = row[1]

\* C2 as stated: when extract_single_row returns after reaching row n, it
\* returned success exactly when the row has a field and its longest field is
\* non-empty; on success output_path holds that field's text, on failure
\* output_path is as it was before the call.
C2_SuccessIffNonEmptyLongest ==
    (SingleReturned /\ TargetReached) =>
        /\ success = "True" <=> (row # <<>> /\ LongestField(row) # <<>>)
        /\ success = "True" => files[OutputPath] = LongestField(row)
        /\ success = "False" => files[OutputPath] = initial_files[OutputPath]

\* C2 amended: success exactly when the row has a field, its longest field is
\* non-empty and opening and writing output_path raised nothing.  On success
\* output_path holds exactly the longest field's text, whatever it held before
\* and whatever the plausibility check said.  A rejected row leaves
\* output_path unwritten; an exception leaves it as it was (the open raised)
\* or truncated to less than the text (the write raised).
C2_SuccessIffWrittenWithoutException ==
    (SingleReturned /\ TargetReached) =>
        /\ success = "True" <=> (row # <<>> /\ LongestField(row) # <<>> /\ ~Raised)
        /\ success = "True" =>
            /\ files[OutputPath] = LongestField(row)
            /\ quick \in {"appears_valid", "validation_failed", "not_json"}
        /\ (success = "False" /\ ~Raised) => files[OutputPath] = initial_files[OutputPath]
        /\ Raised =>
            /\ row # <<>> /\ LongestField(row) # <<>>
            /\ files[OutputPath] \in
                   {initial_files[OutputPath]} \cup ProperPrefixes(LongestField(row))

C2_OverwrittenDespiteFailedProbe ==
    /\ SingleReturned /\ TargetReached
    /\ success = "True"
    /\ quick = "validation_failed"
    /\ initial_files[OutputPath] = OldContent
    /\ files[OutputPath] = <<"[", "]">>

\* a record extract_all_rows skips: no field, or a longest field of fewer
\* than 2 characters once stripped
Skippable(r) == r = <<>> \/ Len(Strip(LongestField(r))) < 2

\* the numbered files of rows 1..n that differ from what the run found
Written(n) == {f \in 1..n : files[f] # initial_files[f]}

\* C3 as stated: once extract_all_rows is done with record row_number, either
\* the record was skippable and its file is untouched, or its file holds
\* exactly the longest field; the two counters add up to the records taken
\* so far and the extracted counter counts the files written.
C3_EveryRecordSkippedOrWritten ==
    (Invoked("extract_all_rows") /\ row_number >= 1 /\ pc \in {"a_loop", AllReturnPc}) =>
        /\ IF Skippable(row)
           THEN files[row_number] = initial_files[row_number]
           ELSE files[row_number] = LongestField(row)
        /\ extracted_count + skipped_count = row_number
        /\ extracted_count = Cardinality(Written(row_number))

\* C3 amended: the above holds for every record processed without an
\* exception.  When opening or writing a row's file raises, the loop is left:
\* neither counter is incremented for that record, its file is as it was or
\* truncated, no later record is processed and the function returns failure.
\* When the loop completes, the counters add up to the number of records.  A
\* file written holds the longest field whatever it held before, so a second
\* run over the same input leaves the same content.
C3_SkippedOrWrittenUnlessRaised ==
    /\ (Invoked("extract_all_rows") /\ row_number >= 1 /\ pc \in {"a_loop", AllReturnPc}
        /\ ~Raised) =>
            /\ IF Skippable(row)
               THEN files[row_number] = initial_files[row_number]
               ELSE files[row_number] = LongestField(row)
            /\ extracted_count + skipped_count = row_number
            /\ extracted_count = Cardinality(Written(row_number))
    /\ (AllReturned /\ Raised /\ row_number >= 1) =>
            /\ success = "False"
            /\ ~Skippable(row)
            /\ files[row_number] \in
                   {initial_files[row_number]} \cup ProperPrefixes(LongestField(row))
            /\ extracted_count + skipped_count = row_number - 1
            /\ extracted_count = Cardinality(Written(row_number - 1))
    /\ (AllReturned /\ ~Raised) => ReaderExhausted
    /\ Invoked("extract_all_rows") =>
            \A f \in OutputFiles : (f > row_number \/ f = OutputPath) =>
                files[f] = initial_files[f]

C3_OneSkippedTwoExtracted ==
    /\ AllReturned /\ ~Raised
    /\ row_number = 3
    /\ skipped_count = 1
    /\ extracted_count = 2
    /\ initial_files[1] = OldContent

\* C4 as stated: extract_all_rows returns success if a row was extracted,
\* failure with no file written if every row was skipped, and failure if an
\* exception occurred.
C4_SuccessIfAnyExtracted ==
    AllReturned =>
        /\ extracted_count > 0 => success = "True"
        /\ skipped_count = row_number => (success = "False" /\ files = initial_files)
        /\ Raised => success = "False"

\* C4 amended: extract_all_rows returns success exactly when a row was
\* extracted and no exception occurred; it returns failure, with no file
\* written, when every row was skipped (or there is no record), and failure
\* when an exception occurred, also after rows were extracted.
C4_SuccessIffExtractedAndNotRaised ==
    AllReturned =>
        /\ success = "True" <=> (extracted_count > 0 /\ ~Raised)
        /\ success \in {"True", "False"}
        /\ skipped_count = row_number => (success = "False" /\ files = initial_files)

C4_FailureAfterAnExtraction ==
    /\ AllReturned
    /\ Raised
    /\ extracted_count > 0
    /\ success = "False"

MainExited == entry = "main" /\ pc = "exit"

\* the third argument is an integer outside 1..(physical lines of the input)
RowOutOfRange ==
    /\ argv.n > 2
    /\ IsInt(argv.row)
    /\ (IntOf(argv.row) < 1 \/ IntOf(argv.row) > input.lines)

\* C5 as stated: with two arguments or more and an existing input file, main
\* exits non-zero exactly when the third argument is no integer, the row is
\* out of range or the extractor returned failure; with fewer arguments or a
\* missing input file it exits non-zero.
C5_ExitStatusCauses ==
    MainExited =>
        /\ (argv.n < 2 \/ ~input.exists) => exit_status # 0
        /\ (argv.n >= 2 /\ input.exists) =>
            (exit_status # 0 <=>
                \/ (argv.n > 2 /\ ~IsInt(argv.row))
                \/ RowOutOfRange
                \/ success = "False")

\* C5 amended: ... or an exception left main uncaught (the Structure Analyzer
\* could not read the input, or the output directory could not be created).
\* The validator's verdict never changes the status.
C5_ExitStatusCausesOrUncaught ==
    MainExited =>
        /\ exit_status \in {0, 1}
        /\ (argv.n < 2 \/ ~input.exists) => exit_status # 0
        /\ (argv.n >= 2 /\ input.exists) =>
            (exit_status # 0 <=>
                \/ (argv.n > 2 /\ ~IsInt(argv.row))
                \/ RowOutOfRange
                \/ success = "False"
                \/ message.kind = "traceback")
        /\ (argv.n > 2 /\ success = "True") => exit_status = 0

C5_InvalidFileStillExitsZero ==
    /\ MainExited
    /\ exit_status = 0
    /\ success = "True"
    /\ validation.verdict = "parse_error"

C7_ValidIffStartsRightAndParses ==
    (entry = "validate_json_file" /\ pc = "returned") =>
        LET content == files[OutputPath] IN
        /\ validation.ok <=>
            /\ content # NoFile
            /\ Strip(content) # <<>>
            /\ Strip(content)[1] \in {"[", "{"}
            /\ JsonLoads(content)
        /\ content = NoFile => validation.verdict = "unreadable"
        /\ (content # NoFile /\ Strip(content) = <<>>) => validation.verdict = "empty"
        /\ (content # NoFile /\ Strip(content) # <<>> /\ Strip(content)[1] \notin {"[", "{"})
            => validation.verdict = "wrong_start"
        /\ validation.verdict = "parse_error" => ~validation.ok
        /\ validation.end_warning =>
            /\ validation.verdict \in {"valid", "parse_error"}
            /\ validation.ok <=> JsonLoads(content)

C7_ParseableScalarRejected ==
    /\ entry = "validate_json_file" /\ pc = "returned"
    /\ validation.verdict = "wrong_start"
    /\ JsonLoads(files[OutputPath])

\* the numeral between "<stem>_row_" and ".json" in the name of output_file
RowNumeral ==
    LET name == output_file[Len(output_file)]
    IN  SubSeq(name, Len(Stem(output_prefix)) + Len(RowInfix) + 1, Len(name) - Len(JsonSuffix))

\* C8: the numbered file lies in the parent directory of the prefix and is
\* named <stem>_row_<NNN>.json, NNN being the decimal numeral of the row
\* number, zero-filled to 3 digits and never truncated.
C8_NumberedFileName ==
    pc = "a_named" =>
        LET name == output_file[Len(output_file)]
            stem == Stem(output_prefix)
        IN  /\ SubSeq(output_file, 1, Len(output_file) - 1) = Parent(output_prefix)
            /\ Len(output_file) = Len(output_prefix)
            /\ SubSeq(name, 1, Len(stem) + Len(RowInfix)) = stem \o RowInfix
            /\ SubSeq(name, Len(name) - Len(JsonSuffix) + 1, Len(name)) = JsonSuffix
            /\ \A i \in 1..Len(RowNumeral) : IsDigit(RowNumeral[i])
            /\ DigitsValue(RowNumeral) = row_number
            /\ Len(RowNumeral) >= 3
            /\ Len(RowNumeral) > 3 => RowNumeral[1] # "0"
            /\ row_number = 7 => RowNumeral = <<"0", "0", "7">>
            /\ row_number = 123 => RowNumeral = <<"1", "2", "3">>
            /\ row_number = 1000 => RowNumeral = <<"1", "0", "0", "0">>

C8_FourDigitRow ==
    /\ pc = "a_named"
    /\ row_number = 1000
    /\ Len(RowNumeral) = 4
    /\ Stem(output_prefix) # output_prefix[Len(output_prefix)]

\* the records the reader yielded to extract_single_row
RecordCount == IF current_row_num = <<>> THEN 0 ELSE current_row_num[1]

\* C9 as stated: when the input has fewer records than the requested row,
\* also when it has none, extract_single_row returns failure, writes nothing
\* and reports the number of records the file has.
C9_ReportsRecordCount ==
    (SingleReturned /\ input.readable /\ ReaderExhausted /\ row_number > RecordCount) =>
        /\ success = "False"
        /\ files = initial_files
        /\ message = [kind |-> "file_only_has_rows", n |-> RecordCount]

\* C10 as stated: at most one file handle is open at any time.
C10_OneHandleAtATime == Cardinality(handles) <= 1

\* C10 amended: at most two handles are open, and two only during an
\* extraction, whose input handle stays open while the output file of a row
\* is opened, written and closed; the analysis and the validation each hold
\* one handle alone; no handle is open outside the three phases, on whatever
\* path a phase was left.
C10_InputAndOneOutputAtMost ==
    /\ Cardinality(handles) <= 2
    /\ "analyze" \in handles => handles = {"analyze"}
    /\ "json" \in handles => handles = {"json"}
    /\ "output" \in handles => handles = {"input", "output"}
    /\ "analyze" \in handles <=> pc = "an_read"
    /\ "json" \in handles <=> pc = "v_read"
    /\ "output" \in handles <=> pc \in {"s_out_write", "s_out_fail", "a_out_write", "a_out_fail"}
    /\ "input" \in handles <=>
           pc \in {"s_loop", "s_target", "s_out_open", "s_out_write", "s_out_fail", "s_quick",
                   "a_loop", "a_out_open", "a_out_write", "a_out_fail"}

C10_InputAndOutputOpen ==
    /\ handles = {"input", "output"}
    /\ pc = "a_out_write"

====
